---- MODULE Spec2Model ----
(***************************************************************************)
(* Model of procyclingstats/race_startlist_scraper.py: RaceStartlist.      *)
(*                                                                         *)
(* Spec     : one RaceStartlist object holding a parsed page (html) and    *)
(*            one call of startlist on it, step by step.                   *)
(* SpecUrl  : construction of a RaceStartlist from a URL (validation       *)
(*            against _url_validation_regex) and normalized_relative_url.  *)
(*                                                                         *)
(* The collaborators imported from .utils, .table_parser and .scraper are  *)
(* not part of the file; they are modelled from the specification text     *)
(* and are marked as such where they are defined.                          *)
(***************************************************************************)
EXTENDS Integers, Sequences, FiniteSets, TLC

(***************************************************************************)
(* Bounds of the model.                                                    *)
(***************************************************************************)
\* nodes of a page: team nodes + rider list items + anchors of the
\* alternate container
MaxNodes == 4
\* length of the *args tuple of one startlist call
MaxArgs == 2
\* path components of a URL
MaxSegs == 5
\* slashes at the end of a URL
MaxSlashes == 1

Range(s) == {s[i] : i \in DOMAIN s}

RECURSIVE SeqsOfLen(_, _)
SeqsOfLen(S, n) ==
    IF n = 0 THEN {<<>>}
    ELSE {Append(s, x) : s \in SeqsOfLen(S, n - 1), x \in S}

SeqsUpTo(S, n) == UNION {SeqsOfLen(S, k) : k \in 0..n}

RECURSIVE Flatten(_)
Flatten(ss) == IF ss = <<>> THEN <<>> ELSE Head(ss) \o Flatten(Tail(ss))

(***************************************************************************)
(* Vocabulary (startlist's keyword defaults and locals).                   *)
(***************************************************************************)
available_fields ==
    <<"rider_name", "rider_url", "team_name", "team_url", "nationality",
      "rider_number">>

casual_rider_fields == <<"rider_name", "rider_url", "nationality">>

\* Python's None.  It only ever stands in string-valued fields of a returned
\* record (rider_number is overwritten with an integer before the record is
\* complete).
None == "None"

\* what a caller may pass: the vocabulary and one name outside it
ArgNames == Range(available_fields) \cup {"captain_name"}

Args == SeqsUpTo(ArgNames, MaxArgs)

(***************************************************************************)
(* Pages.  A page is what the selectors of startlist can see of it:        *)
(*   startlist_v3 : whether css_first(".startlist_v3") finds a node        *)
(*   teams        : the li.team nodes under it, in document order; each    *)
(*                  has its primary anchor a and its nested rider list ul  *)
(*   page_content : whether css_first(".page-content > div") finds a node  *)
(*   anchors      : the anchors under that node, in document order         *)
(***************************************************************************)
TeamAnchors ==
    {[text |-> "Team A", href |-> "team/a"],
     [text |-> "Team B", href |-> "team/b"]}

Roglic ==
    [rider_name |-> "ROGLIC Primoz", rider_url |-> "rider/roglic",
     nationality |-> "si"]

Vingegaard ==
    [rider_name |-> "VINGEGAARD Jonas", rider_url |-> "rider/vingegaard",
     nationality |-> "dk"]

RiderCells == {Roglic, Vingegaard}

\* the rider list items: text is li.text(deep=False) as its space separated
\* words (the number printed in front of the rider, or nothing), rider is
\* what the cells of the item say
ListItems ==
    {[text |-> <<"1">>, rider |-> Roglic],
     [text |-> <<"2">>, rider |-> Vingegaard],
     [text |-> <<>>, rider |-> Vingegaard]}

\* anchors of the alternate container: rider anchors carry no class
\* attribute, navigation anchors do
Anchors ==
    {[class |-> FALSE, text |-> r.rider_name, href |-> r.rider_url] :
        r \in RiderCells}
    \cup {[class |-> TRUE, text |-> "Startlist", href |-> "nav/startlist"]}

\* team nodes that take exactly n nodes of the budget
TeamsOfSize(n) ==
    {[a |-> a, ul |-> ul] : a \in TeamAnchors, ul \in SeqsOfLen(ListItems, n - 1)}

RECURSIVE TeamSeqs(_)
TeamSeqs(n) ==
    {<<>>} \cup
    UNION {{<<tm>> \o rest : tm \in TeamsOfSize(k), rest \in TeamSeqs(n - k)} :
              k \in 1..n}

RECURSIVE NodeCount(_)
NodeCount(ts) ==
    IF ts = <<>> THEN 0 ELSE 1 + Len(Head(ts).ul) + NodeCount(Tail(ts))

WellFormedPages ==
    UNION {{[startlist_v3 |-> TRUE, teams |-> ts, page_content |-> TRUE,
             anchors |-> as] : as \in SeqsUpTo(Anchors, MaxNodes - NodeCount(ts))} :
              ts \in TeamSeqs(MaxNodes)}

\* pages on which css_first finds no container at all
NoStartlistPage ==
    [startlist_v3 |-> FALSE, teams |-> <<>>, page_content |-> TRUE, anchors |-> <<>>]

NoContentPage ==
    [startlist_v3 |-> TRUE, teams |-> <<>>, page_content |-> FALSE, anchors |-> <<>>]

Pages == WellFormedPages \cup {NoStartlistPage, NoContentPage}

VARIABLES
    html,           \* self.html, the parsed page
    pc,             \* position of the startlist call
    fields,         \* fields, once parse_table_fields_args has returned
    startlist_html, \* the selector whose node startlist_html currently is
    table,          \* startlist_table / table, as built so far
    t,              \* index of the team node the for loop is at
    team_tables,    \* tp.table of every finished loop iteration
    error,          \* the exception that ended the call, or "none"
    queried,        \* selectors evaluated on the page so far
    paths,          \* the extraction paths the call has entered
    unsupported,    \* the requested names outside available_fields
    url,            \* the URL a RaceStartlist is constructed with
    upc,            \* position of the URL's life
    normalized,     \* normalized_relative_url() of the object
    other,          \* another surface form of the URL
    other_normalized, \* normalized_relative_url() of an object made of other
    renormalized    \* normalized_relative_url() of an object made of normalized

svars ==
    <<html, pc, fields, startlist_html, table, t, team_tables, error, queried,
      paths, unsupported>>

uvars == <<url, upc, normalized, other, other_normalized, renormalized>>

vars == <<svars, uvars>>

(***************************************************************************)
(* Collaborators, modelled from the specification.                         *)
(***************************************************************************)
\* utils.parse_table_fields_args: the requested names that are not supported
InvalidArgs(args, available) == Range(args) \ Range(available)

\* utils.parse_table_fields_args on a valid request: all fields for an empty
\* request, otherwise the requested ones without duplicates, in the order of
\* the supported tuple
parse_table_fields_args(args, available) ==
    IF args = <<>> THEN available
    ELSE SelectSeq(available, LAMBDA f : f \in Range(args))

\* TableParser(riders_table).parse(fields_to_parse): one partial record per
\* list item; nothing at all when no field is to be parsed
TableParser_parse(riders_table, fields_to_parse) ==
    IF fields_to_parse = <<>> THEN <<>>
    ELSE [k \in 1..Len(riders_table) |->
             [f \in Range(fields_to_parse) |-> riders_table[k].rider[f]]]

\* a row with one more key
WithKey(row, field_name, value) ==
    [f \in DOMAIN row \cup {field_name} |->
        IF f = field_name THEN value ELSE row[f]]

\* TableParser.extend_table(field_name, values): a new column, attached to
\* the rows by position; an empty table gets one row per value; a column of
\* another length than a non-empty table is fatal
extend_table(tp, field_name, values) ==
    IF tp.err # "none" THEN tp
    ELSE IF tp.table = <<>>
    THEN [err |-> "none",
          table |-> [k \in 1..Len(values) |->
                        [f \in {field_name} |-> values[k]]]]
    ELSE IF Len(values) # Len(tp.table)
    THEN [err |-> "MalformedPage", table |-> tp.table]
    ELSE [err |-> "none",
          table |-> [k \in 1..Len(values) |->
                        WithKey(tp.table[k], field_name, values[k])]]

(***************************************************************************)
(* startlist, individual layout.                                           *)
(***************************************************************************)
\* variant: every anchor is taken, classed or not
css_a_not_class_all(anchors) == anchors

\* startlist_html.css("a:not([class])")
css_a_not_class(anchors) == SelectSeq(anchors, LAMBDA a : ~a.class)

\* variant: the fields without a source on the page get the anchor's text
individual_record_text(i, rider_a, flds) ==
    [f \in Range(flds) |->
        CASE f = "rider_url" -> rider_a.href
          [] f = "rider_number" -> i + 1
          [] OTHER -> rider_a.text]

\* the record of the anchor enumerate() numbers i (from 0)
individual_record(i, rider_a, flds) ==
    [f \in Range(flds) |->
        CASE f = "rider_url" -> rider_a.href
          [] f = "rider_name" -> rider_a.text
          [] f = "rider_number" -> i + 1
          [] OTHER -> None]

individual_table(anchors, flds) ==
    LET rider_as == css_a_not_class(anchors)
    IN  [k \in 1..Len(rider_as) |-> individual_record(k - 1, rider_as[k], flds)]

(***************************************************************************)
(* startlist, one iteration of the loop over the team nodes.               *)
(***************************************************************************)
\* li.text(deep=False).split(" ")[0]
first_word(text) == IF text = <<>> THEN "" ELSE text[1]

\* the strings int() accepts, and their values
IsIntLiteral(num) == num \in {"1", "2"}

int(num) == CASE num = "1" -> 1 [] num = "2" -> 2

rider_f_to_parse(flds) == SelectSeq(casual_rider_fields, LAMBDA f : f \in Range(flds))

\* variant: the numbers are the positions in the list, not the page's text
with_rider_numbers_by_position(tp, riders_table, flds) ==
    IF "rider_number" \notin Range(flds) THEN tp
    ELSE IF \E k \in 1..Len(riders_table) :
                ~IsIntLiteral(first_word(riders_table[k].text))
    THEN [err |-> "ValueError", table |-> tp.table]
    ELSE extend_table(tp, "rider_number", [k \in 1..Len(riders_table) |-> k])

\* numbers, or the ValueError of int()
with_rider_numbers(tp, riders_table, flds) ==
    IF "rider_number" \notin Range(flds) THEN tp
    ELSE IF \E k \in 1..Len(riders_table) :
                ~IsIntLiteral(first_word(riders_table[k].text))
    THEN [err |-> "ValueError", table |-> tp.table]
    ELSE extend_table(tp, "rider_number",
             [k \in 1..Len(riders_table) |-> int(first_word(riders_table[k].text))])

\* variant: the name is read from the first team node of the page
with_team_names_of_first(tp, team_html, flds) ==
    IF "team_name" \notin Range(flds) \/ tp.err # "none" THEN tp
    ELSE LET team_name == html.teams[1].a.text
             team_names == [k \in 1..Len(tp.table) |-> team_name]
         IN  extend_table(tp, "team_name", team_names)

with_team_names(tp, team_html, flds) ==
    IF "team_name" \notin Range(flds) \/ tp.err # "none" THEN tp
    ELSE LET team_name == team_html.a.text
             team_names == [k \in 1..Len(tp.table) |-> team_name]
         IN  extend_table(tp, "team_name", team_names)

\* variant: the urls are stored under the key "team"
with_team_urls_as_team(tp, team_html, flds) ==
    IF "team_url" \notin Range(flds) \/ tp.err # "none" THEN tp
    ELSE LET team_url == team_html.a.href
             team_urls == [k \in 1..Len(tp.table) |-> team_url]
         IN  extend_table(tp, "team", team_urls)

with_team_urls(tp, team_html, flds) ==
    IF "team_url" \notin Range(flds) \/ tp.err # "none" THEN tp
    ELSE LET team_url == team_html.a.href
             team_urls == [k \in 1..Len(tp.table) |-> team_url]
         IN  extend_table(tp, "team_url", team_urls)

\* tp after the body of the loop, for one team node
team_table(team_html, flds) ==
    LET riders_table == team_html.ul
        parsed == [err |-> "none",
                   table |-> TableParser_parse(riders_table, rider_f_to_parse(flds))]
        numbered == with_rider_numbers(parsed, riders_table, flds)
        named == with_team_names(numbered, team_html, flds)
    IN  with_team_urls(named, team_html, flds)

(***************************************************************************)
(* URLs.  A URL is its optional base prefix, its path components and the   *)
(* slashes that end it.                                                    *)
(***************************************************************************)
UrlWords == {"race", "tour-de-france", "2021", "stage-1", "result", "startlist"}

Urls ==
    {[base |-> b, segs |-> sg, slashes |-> n] :
        b \in BOOLEAN, sg \in SeqsUpTo(UrlWords, MaxSegs), n \in 0..MaxSlashes}

NoUrl == [base |-> FALSE, segs |-> <<>>, slashes |-> 0]

(***************************************************************************)
(* The call, step by step.                                                 *)
(***************************************************************************)
StartlistIdle ==
    /\ pc = "idle"
    /\ fields = <<>>
    /\ startlist_html = "none"
    /\ table = <<>>
    /\ t = 0
    /\ team_tables = <<>>
    /\ error = "none"
    /\ queried = {}
    /\ paths = {}
    /\ unsupported = {}

Init ==
    /\ html \in Pages
    /\ StartlistIdle
    /\ url = NoUrl
    /\ upc = "none"
    /\ normalized = NoUrl
    /\ other = NoUrl
    /\ other_normalized = NoUrl
    /\ renormalized = NoUrl

\* variant: the request is taken as it is, the supported part of it is used
CallUnchecked(args) ==
    /\ UNCHANGED uvars
    /\ pc = "idle"
    /\ unsupported' = InvalidArgs(args, available_fields)
    /\ pc' = "validated"
    /\ fields' = parse_table_fields_args(args, available_fields)
    /\ UNCHANGED <<html, startlist_html, table, t, team_tables, queried, paths,
                   error>>

\* startlist(*args): fields = parse_table_fields_args(args, available_fields)
Call(args) ==
    /\ UNCHANGED uvars
    /\ pc = "idle"
    /\ unsupported' = InvalidArgs(args, available_fields)
    /\ IF InvalidArgs(args, available_fields) # {}
       THEN /\ pc' = "failed"
            /\ error' = "ValueError"
            /\ UNCHANGED fields
       ELSE /\ pc' = "validated"
            /\ fields' = parse_table_fields_args(args, available_fields)
            /\ UNCHANGED error
    /\ UNCHANGED <<html, startlist_html, table, t, team_tables, queried, paths>>

\* variant: the test for li.team is inverted
DetectInverted ==
    /\ UNCHANGED uvars
    /\ pc = "validated"
    /\ IF ~html.startlist_v3
       THEN /\ pc' = "failed"
            /\ error' = "AttributeError"
            /\ startlist_html' = "None"
            /\ queried' = queried \cup {".startlist_v3"}
       ELSE IF html.teams # <<>>
       THEN /\ pc' = "individual"
            /\ startlist_html' = ".page-content > div"
            /\ queried' = queried \cup {".startlist_v3", "li.team", ".page-content > div"}
            /\ UNCHANGED error
       ELSE /\ pc' = "teams"
            /\ startlist_html' = ".startlist_v3"
            /\ queried' = queried \cup {".startlist_v3", "li.team"}
            /\ UNCHANGED error
    /\ t' = 1
    /\ UNCHANGED <<html, fields, table, team_tables, paths, unsupported>>

\* startlist_html = css_first(".startlist_v3"); the test for li.team; in the
\* individual branch startlist_html = css_first(".page-content > div")
Detect ==
    /\ UNCHANGED uvars
    /\ pc = "validated"
    /\ IF ~html.startlist_v3
       THEN \* None.css_first
            /\ pc' = "failed"
            /\ error' = "AttributeError"
            /\ startlist_html' = "None"
            /\ queried' = queried \cup {".startlist_v3"}
       ELSE IF html.teams = <<>>
       THEN /\ pc' = "individual"
            /\ startlist_html' = ".page-content > div"
            /\ queried' = queried \cup {".startlist_v3", "li.team", ".page-content > div"}
            /\ UNCHANGED error
       ELSE /\ pc' = "teams"
            /\ startlist_html' = ".startlist_v3"
            /\ queried' = queried \cup {".startlist_v3", "li.team"}
            /\ UNCHANGED error
    /\ t' = 1
    /\ UNCHANGED <<html, fields, table, team_tables, paths, unsupported>>

\* the loop over the unclassed anchors and the return of startlist_table
Individual ==
    /\ UNCHANGED uvars
    /\ pc = "individual"
    /\ paths' = paths \cup {"individual"}
    /\ IF ~html.page_content
       THEN \* None.css
            /\ pc' = "failed"
            /\ error' = "AttributeError"
            /\ UNCHANGED <<table, queried>>
       ELSE /\ pc' = "done"
            /\ table' = individual_table(html.anchors, fields)
            /\ queried' = queried \cup {"a:not([class])"}
            /\ UNCHANGED error
    /\ UNCHANGED <<html, fields, startlist_html, t, team_tables, unsupported>>

\* variant: the team's rows are put in front of the table
TeamStepPrepend ==
    /\ UNCHANGED uvars
    /\ pc = "teams"
    /\ t <= Len(html.teams)
    /\ LET tp == team_table(html.teams[t], fields)
       IN  IF tp.err # "none"
           THEN /\ pc' = "failed"
                /\ error' = tp.err
                /\ UNCHANGED <<table, t, team_tables>>
           ELSE /\ table' = tp.table \o table
                /\ team_tables' = Append(team_tables, tp.table)
                /\ t' = t + 1
                /\ UNCHANGED <<pc, error>>
    /\ queried' = queried \cup {"ul"}
                   \cup (IF "rider_number" \in Range(fields) THEN {"li"} ELSE {})
                   \cup (IF {"team_name", "team_url"} \cap Range(fields) # {}
                         THEN {"a"} ELSE {})
    /\ paths' = paths \cup {"team"}
    /\ UNCHANGED <<html, fields, startlist_html, unsupported>>

\* one iteration of the loop over the team nodes
TeamStep ==
    /\ UNCHANGED uvars
    /\ pc = "teams"
    /\ t <= Len(html.teams)
    /\ LET tp == team_table(html.teams[t], fields)
       IN  IF tp.err # "none"
           THEN /\ pc' = "failed"
                /\ error' = tp.err
                /\ UNCHANGED <<table, t, team_tables>>
           ELSE /\ table' = table \o tp.table
                /\ team_tables' = Append(team_tables, tp.table)
                /\ t' = t + 1
                /\ UNCHANGED <<pc, error>>
    /\ queried' = queried \cup {"ul"}
                   \cup (IF "rider_number" \in Range(fields) THEN {"li"} ELSE {})
                   \cup (IF {"team_name", "team_url"} \cap Range(fields) # {}
                         THEN {"a"} ELSE {})
    /\ paths' = paths \cup {"team"}
    /\ UNCHANGED <<html, fields, startlist_html, unsupported>>

\* return table
Return ==
    /\ UNCHANGED uvars
    /\ pc = "teams"
    /\ t > Len(html.teams)
    /\ pc' = "done"
    /\ paths' = paths \cup {"team"}
    /\ UNCHANGED <<html, fields, startlist_html, table, t, team_tables, error,
                   queried, unsupported>>

\* a caller's startlist(*args), for every tuple of names it may pass
CallStartlist == pc = "idle" /\ \E args \in Args : Call(args)

Next ==
    \/ CallStartlist
    \/ Detect
    \/ Individual
    \/ TeamStep
    \/ Return

Spec == Init /\ [][Next]_vars

(***************************************************************************)
(* URL validation and normalization.                                       *)
(***************************************************************************)
\* reg.year, reg.stage, reg.result, reg.startlist, reg.url_str on one path
\* component (reg.anything takes any components)
reg_year(w) == w \in {"2021"}

reg_stage(w) == w \in {"stage-1"}

reg_result(w) == w = "result"

reg_startlist(w) == w = "startlist"

reg_url_str(w) == w \in UrlWords

\* _url_validation_regex, matched against the whole URL: base_url? race
\* url_str, then year stage startlist, or year result? startlist, or
\* startlist, each with anything? after it, then slashes
url_validation_regex(u) ==
    LET s == u.segs
    IN  /\ Len(s) >= 3
        /\ s[1] = "race"
        /\ reg_url_str(s[2])
        /\ \/ Len(s) >= 5 /\ reg_year(s[3]) /\ reg_stage(s[4]) /\ reg_startlist(s[5])
           \/ Len(s) >= 4 /\ reg_year(s[3]) /\ reg_startlist(s[4])
           \/ Len(s) >= 5 /\ reg_year(s[3]) /\ reg_result(s[4]) /\ reg_startlist(s[5])
           \/ reg_startlist(s[3])

\* Scraper._decomposed_url: the path components, base prefix stripped
decomposed_url(u) == u.segs

\* utils.normalize_race_url: the component after the race marker is the race
\* id, the first four-digit component after it is the year
normalize_race_url(decomposed, extra) ==
    LET marker == CHOOSE i \in DOMAIN decomposed :
                      /\ decomposed[i] = "race"
                      /\ \A j \in 1..(i - 1) : decomposed[j] # "race"
        race_id == decomposed[marker + 1]
        years == {i \in (marker + 2)..Len(decomposed) : reg_year(decomposed[i])}
        first == CHOOSE i \in years : \A j \in years : i <= j
        year == IF years = {} THEN <<>> ELSE <<decomposed[first]>>
    IN  [base |-> FALSE, segs |-> <<"race", race_id>> \o year \o <<extra>>,
         slashes |-> 0]

\* variant: the page type handed over is that of the overview page
normalized_relative_url_overview(u) ==
    normalize_race_url(decomposed_url(u), "overview")

normalized_relative_url(u) == normalize_race_url(decomposed_url(u), "startlist")

\* other surface forms of a URL: with or without the base prefix, other
\* slashes at the end, a component more or less at the end, a stage or a
\* result component more or less
Variants(u) ==
    LET n == Len(u.segs)
        without(i) == SubSeq(u.segs, 1, i - 1) \o SubSeq(u.segs, i + 1, n)
        with(i, w) == SubSeq(u.segs, 1, i - 1) \o <<w>> \o SubSeq(u.segs, i, n)
    IN  ({[u EXCEPT !.base = ~u.base]}
         \cup {[u EXCEPT !.slashes = k] : k \in 0..MaxSlashes}
         \cup {[u EXCEPT !.segs = Append(u.segs, w)] : w \in UrlWords}
         \cup {[u EXCEPT !.segs = without(n)]}
         \cup {[u EXCEPT !.segs = without(4)]}
         \cup {[u EXCEPT !.segs = IF n >= 3 THEN with(4, w) ELSE u.segs] :
                  w \in {"stage-1", "result"}})

InitUrl ==
    /\ html = NoStartlistPage
    /\ StartlistIdle
    /\ url \in Urls
    /\ upc = "new"
    /\ normalized = NoUrl
    /\ other = NoUrl
    /\ other_normalized = NoUrl
    /\ renormalized = NoUrl

\* RaceStartlist(url): the URL is validated
Construct ==
    /\ upc = "new"
    /\ upc' = IF url_validation_regex(url) THEN "valid" ELSE "invalid"
    /\ UNCHANGED <<url, normalized, other, other_normalized, renormalized>>
    /\ UNCHANGED svars

\* normalized_relative_url()
Normalize ==
    /\ upc = "valid"
    /\ normalized' = normalized_relative_url(url)
    /\ upc' = "normalized"
    /\ UNCHANGED <<url, other, other_normalized, renormalized>>
    /\ UNCHANGED svars

\* RaceStartlist(v).normalized_relative_url() for another valid form v
Vary ==
    /\ upc = "normalized"
    /\ \E v \in Variants(url) \ {url} :
           /\ Len(v.segs) <= MaxSegs
           /\ url_validation_regex(v)
           /\ other' = v
           /\ other_normalized' = normalized_relative_url(v)
    /\ upc' = "compared"
    /\ UNCHANGED <<url, normalized, renormalized>>
    /\ UNCHANGED svars

\* RaceStartlist(normalized).normalized_relative_url()
Renormalize ==
    /\ upc = "normalized"
    /\ IF url_validation_regex(normalized)
       THEN /\ renormalized' = normalized_relative_url(normalized)
            /\ upc' = "renormalized"
       ELSE /\ upc' = "rejected"
            /\ UNCHANGED renormalized
    /\ UNCHANGED <<url, normalized, other, other_normalized>>
    /\ UNCHANGED svars

NextUrl ==
    \/ Construct
    \/ Normalize
    \/ Vary
    \/ Renormalize

SpecUrl == InitUrl /\ [][NextUrl]_vars

(***************************************************************************)
(* Properties of normalized_relative_url.                                  *)
(***************************************************************************)
\* the race a valid URL names
RaceOf(u) == u.segs[2]

\* the year a valid URL names: its four-digit components after the race id,
\* the first of them if any
RECURSIVE YearsFrom(_, _)
YearsFrom(s, i) ==
    IF i > Len(s) THEN <<>>
    ELSE IF reg_year(s[i]) THEN <<s[i]>> \o YearsFrom(s, i + 1)
    ELSE YearsFrom(s, i + 1)

YearOf(u) ==
    LET ys == YearsFrom(u.segs, 3) IN IF ys = <<>> THEN "none" ELSE ys[1]

\* race/{race_id}/{year}/startlist, or race/{race_id}/startlist
Canonical(u) ==
    [base |-> FALSE,
     segs |-> IF YearOf(u) = "none" THEN <<"race", RaceOf(u), "startlist">>
              ELSE <<"race", RaceOf(u), YearOf(u), "startlist">>,
     slashes |-> 0]

\* C10: the normalized URL of a valid URL is race/{race_id}/{year}/startlist
\* when the URL has a year component and race/{race_id}/startlist when it
\* has none; two valid forms that name the same race and year have the same
\* normalized URL; the normalized URL is valid and is its own normalized
\* URL.
C10_CanonicalIdentity ==
    /\ upc \in {"normalized", "compared", "renormalized"} =>
           normalized = Canonical(url)
    /\ upc = "compared" =>
           ((RaceOf(other) = RaceOf(url) /\ YearOf(other) = YearOf(url))
                => other_normalized = normalized)
    /\ upc # "rejected"
    /\ upc = "renormalized" => renormalized = normalized

\* C10 happens: an absolute URL of a stage's startlist with slashes at its
\* end and the relative URL without the stage have the same normalized URL
C10_Witness ==
    /\ upc = "compared"
    /\ url.base
    /\ url.slashes > 0
    /\ url.segs = <<"race", "tour-de-france", "2021", "stage-1", "startlist">>
    /\ other.segs = <<"race", "tour-de-france", "2021", "startlist">>
    /\ other_normalized = normalized
    /\ normalized.segs = <<"race", "tour-de-france", "2021", "startlist">>

(***************************************************************************)
(* Properties of startlist.                                                *)
(***************************************************************************)
Returned == pc = "done"

TeamLayout == startlist_html = ".startlist_v3"

IndividualLayout == startlist_html = ".page-content > div"

Requested(f) == f \in Range(fields)

\* the number the page prints in front of a rider list item
PrintedNumber(li) == int(first_word(li.text))

\* the rider-level values of a record are those of the list item li
RowOfItem(row, li) ==
    /\ \A f \in Range(casual_rider_fields) \cap DOMAIN row : row[f] = li.rider[f]
    /\ "rider_number" \in DOMAIN row => row["rider_number"] = PrintedNumber(li)

\* the index, among all anchors, of the k-th anchor without a class
NthUnclassed(anchors, k) ==
    CHOOSE i \in DOMAIN anchors :
        /\ ~anchors[i].class
        /\ Cardinality({j \in 1..i : ~anchors[j].class}) = k

\* C1: every record built by a call has exactly the validated fields as its
\* keys, in both layouts: none is missing, none is added, and so all the
\* records of a call have the same keys.
C1_FieldSetClosure ==
    \A k \in DOMAIN table : DOMAIN table[k] = Range(fields)

\* C1 happens: a team page returns two records for a request without any
\* rider-level field
C1_Witness ==
    /\ Returned
    /\ TeamLayout
    /\ Len(table) >= 2
    /\ Range(fields) = {"team_url", "rider_number"}

\* C2: on a team page every team contributes as many records as its rider
\* list has items, whatever the requested fields are.
C2_RowCountPerTeam ==
    (Returned /\ TeamLayout) =>
        /\ Len(team_tables) = Len(html.teams)
        /\ \A i \in DOMAIN team_tables :
               Len(team_tables[i]) = Len(html.teams[i].ul)

\* C3: a request with a name outside the supported fields fails with
\* ValueError and nothing else has happened: no selector was evaluated, no
\* layout was chosen, no record exists.
C3_FailFast ==
    unsupported # {} =>
        /\ pc = "failed"
        /\ error = "ValueError"
        /\ queried = {}
        /\ startlist_html = "none"
        /\ paths = {}
        /\ table = <<>>
        /\ team_tables = <<>>

\* C3 happens: an unsupported name was requested on a page that has riders
C3_Witness ==
    /\ unsupported # {}
    /\ pc = "failed"
    /\ html.teams # <<>>
    /\ html.teams[1].ul # <<>>

C6_LayoutExclusive ==
    /\ Cardinality(paths) <= 1
    /\ "team" \in paths => (html.teams # <<>> /\ TeamLayout)
    /\ "individual" \in paths => (html.teams = <<>> /\ IndividualLayout)
    /\ (html.startlist_v3 /\ pc \in {"individual", "teams", "done"}) =>
           IF html.teams # <<>> THEN TeamLayout ELSE IndividualLayout
    /\ Returned => paths # {}

\* C6 happens: a page with a team node and with unclassed anchors in its
\* alternate container was processed by the team path
C6_Witness ==
    /\ Returned
    /\ paths = {"team"}
    /\ css_a_not_class(html.anchors) # <<>>
    /\ table # <<>>

\* C7: on an individual page team_name, team_url and nationality are None in
\* every returned record that has them.
C7_IndividualNulls ==
    (Returned /\ IndividualLayout) =>
        \A k \in DOMAIN table :
            \A f \in {"team_name", "team_url", "nationality"} \cap Range(fields) :
                table[k][f] = None

\* C7 happens: all three were requested and a record was returned
C7_Witness ==
    /\ Returned
    /\ IndividualLayout
    /\ {"team_name", "team_url", "nationality"} \subseteq Range(fields)
    /\ Len(table) >= 1

\* C8: on an individual page there is one record per anchor without a class,
\* in the order of these anchors, with the anchor's text and href; the k-th
\* record has rider_number k; anchors with a class give no record and take
\* no number; no such anchor gives the empty list.
C8_OneRecordPerUnclassedAnchor ==
    /\ (Returned /\ IndividualLayout) =>
           /\ Len(table) = Cardinality({j \in DOMAIN html.anchors :
                                              ~html.anchors[j].class})
           /\ \A k \in DOMAIN table :
                  LET rider_a == html.anchors[NthUnclassed(html.anchors, k)]
                  IN  /\ Requested("rider_number") => table[k]["rider_number"] = k
                      /\ Requested("rider_name") => table[k]["rider_name"] = rider_a.text
                      /\ Requested("rider_url") => table[k]["rider_url"] = rider_a.href
    /\ (IndividualLayout /\ html.page_content) => pc # "failed"

\* C8 happens: a classed anchor stands before two unclassed ones, which are
\* returned as the records numbered 1 and 2
C8_Witness ==
    /\ Returned
    /\ IndividualLayout
    /\ Len(html.anchors) = 3
    /\ html.anchors[1].class
    /\ Requested("rider_number")
    /\ Requested("rider_name")
    /\ Len(table) = 2
    /\ table[1]["rider_number"] = 1
    /\ table[2]["rider_number"] = 2
    /\ table[1]["rider_name"] # table[2]["rider_name"]

\* C9: on a team page the records of one team node all carry the text of
\* that node's primary anchor as team_name and its href as team_url, when
\* these are requested; so they are pairwise equal within a team.
C9_BroadcastConsistent ==
    (Returned /\ TeamLayout) =>
        \A i \in DOMAIN team_tables : \A k \in DOMAIN team_tables[i] :
            /\ Requested("team_name") =>
                   team_tables[i][k]["team_name"] = html.teams[i].a.text
            /\ Requested("team_url") =>
                   team_tables[i][k]["team_url"] = html.teams[i].a.href
            /\ \A m \in DOMAIN team_tables[i] :
                   \A f \in {"team_name", "team_url"} \cap Range(fields) :
                       team_tables[i][k][f] = team_tables[i][m][f]

\* C9 happens: two teams with different anchors, a rider each, both team
\* fields requested
C9_Witness ==
    /\ Returned
    /\ TeamLayout
    /\ Len(team_tables) = 2
    /\ Len(team_tables[1]) = 1
    /\ Len(team_tables[2]) = 1
    /\ Requested("team_name")
    /\ Requested("team_url")
    /\ html.teams[1].a # html.teams[2].a
    /\ table[1]["team_name"] # table[2]["team_name"]

====
